---- MODULE Spec2Model ----
(***************************************************************************)
(* Model of the finance-intelligence repository: the ETL "Fusion Pipeline" *)
(* (src/src/etl_pipeline.py), the processed-data loader                    *)
(* (src/src/data_loader.py) and the Sentiment page that starts the         *)
(* pipeline and loads records (src/pages/3_Sentiment.py).                  *)
(*                                                                         *)
(* Numbers: sentiment scores are exact rationals <<num, den>> in           *)
(* hundredths (<<50, 1>> is 0.50); Null (pandas NaN) is <<0, 0>>.  Closes  *)
(* are integers in cents; BadClose stands for a non-numeric Close cell.    *)
(* A raw Date cell is [day, tod]: a calendar day and a time of day; day 0  *)
(* stands for a cell pd.to_datetime cannot parse.                          *)
(***************************************************************************)
EXTENDS Integers, Sequences, FiniteSets, TLC

VARIABLES
    stockFile,    \* data/raw/stock_yfinance_data.csv: [exists, rows]
    tweetFile,    \* data/raw/stock_tweets.csv: [exists, rows]
    store,        \* data/processed/<ticker>_processed.csv, per ticker
    pc,           \* position of run_pipeline: "idle", "loop", "writing"
    queue,        \* unique_tickers still to be iterated
    cur,          \* ticker whose output file is open
    wpos,         \* rows of the open output file flushed so far
    logged,       \* per-ticker warnings printed by the current/last run
    result,       \* value run_pipeline returned to its caller
    uiStatus,     \* what the "Process All Datasets" handler showed last
    lastRun,      \* how the last run ended
    wrote,        \* tickers whose file the current/last run wrote in full
    startStore,   \* the store when the current/last run started
    runsDone,     \* finished runs: 0, 1, or 2 for "two or more"
    firstEnd,     \* the store when the first run finished
    store0,       \* the store before any run of this behaviour
    persisted,    \* tickers some run has written a full record for
    readers,      \* number of page sessions loading records concurrently
    df,           \* the DataFrame a page session holds after load_stock_data
    order,        \* the order in which the current/last run iterates tickers
    risk,         \* a session of the Risk page (pages/2_Risk.py)
    scan          \* an invocation of find_market_opportunities

vars == <<stockFile, tweetFile, store, pc, queue, cur, wpos, logged, result,
          uiStatus, lastRun, wrote, startStore, runsDone, firstEnd, store0,
          persisted, readers, df, order, risk, scan>>

-----------------------------------------------------------------------------
(* Bounds of the model *)

\* calendar days are 1..MaxDate
MaxDate == 10

\* posts in the post source of the sentiment-memory inputs
MaxPosts == 2

\* price rows in the price source of the malformed-input inputs
MaxPriceRows == 2

\* rows that fit one flush of the output file's write buffer
BufRows == 5

(* Program constants *)

\* ffill(limit=7)
MemoryWindow == 7

-----------------------------------------------------------------------------
(* Values *)

Null == <<0, 0>>
Zero == <<0, 1>>
NaN == "NaN"
BadClose == -1
BadDate == [day |-> 0, tod |-> 0]

Tickers == {"A", "B", "A/B"}
Dates == 1..MaxDate

Range(s) == {s[i] : i \in DOMAIN s}

Max(S) == CHOOSE x \in S : \A y \in S : y <= x

Min(S) == CHOOSE x \in S : \A y \in S : x <= y

Abs(n) == IF n < 0 THEN -n ELSE n

RECURSIVE Gcd(_, _)
Gcd(a, b) == IF b = 0 THEN a ELSE Gcd(b, a % b)

\* the rational n/d in lowest terms with a positive denominator
Rat(n, d) ==
    LET g == Gcd(Abs(n), Abs(d))
        s == IF d < 0 THEN -1 ELSE 1
    IN  <<(s * n) \div g, (s * d) \div g>>

RECURSIVE SumSeq(_)
SumSeq(s) == IF s = <<>> THEN 0 ELSE Head(s) + SumSeq(Tail(s))

\* Series.mean() of a non-empty column of scores
Mean(scores) == Rat(SumSeq(scores), Len(scores))

RECURSIVE SortedSeq(_)
SortedSeq(S) ==
    IF S = {} THEN <<>> ELSE <<Min(S)>> \o SortedSeq(S \ {Min(S)})

RECURSIVE Concat(_)
Concat(ss) == IF ss = <<>> THEN <<>> ELSE Head(ss) \o Concat(Tail(ss))

-----------------------------------------------------------------------------
(* run_pipeline, steps 1-3: load, standardize dates, score, unique tickers *)

\* os.path.exists(STOCK_FILE) and os.path.exists(TWEET_FILE)
SourcesExist == stockFile.exists /\ tweetFile.exists

\* pd.to_datetime raises on a cell it cannot parse
Parseable(d) == d.day > 0

\* pd.to_datetime(...).dt.date: the calendar day, time of day stripped
ToDate(d) == d.day

\* pd.to_datetime over the whole Date column of both frames (not in a try)
DatesParse ==
    /\ \A i \in DOMAIN stockFile.rows : Parseable(stockFile.rows[i].date)
    /\ \A i \in DOMAIN tweetFile.rows : Parseable(tweetFile.rows[i].date)

\* analyzer.polarity_scores(str(text))['compound'], in hundredths
Compound(text) ==
    CASE text = "good" -> 50
      [] text = "bad" -> -50
      [] OTHER -> 0

\* get_sentiment: the compound score (the except branch returns 0)
GetSentiment(text) == Compound(text)

\* df_stocks after line 26
DfStocks ==
    [i \in DOMAIN stockFile.rows |->
        [StockName |-> stockFile.rows[i].ticker,
         Date |-> ToDate(stockFile.rows[i].date),
         Close |-> stockFile.rows[i].close]]

\* df_tweets after line 42
DfTweets ==
    [i \in DOMAIN tweetFile.rows |->
        [StockName |-> tweetFile.rows[i].ticker,
         Date |-> ToDate(tweetFile.rows[i].date),
         sentiment_score |-> GetSentiment(tweetFile.rows[i].text)]]

\* pandas ==: NaN equals nothing, itself included
PdEq(a, b) == a # NaN /\ b # NaN /\ a = b

RECURSIVE Unique(_, _)
Unique(col, seen) ==
    IF col = <<>> THEN <<>>
    ELSE IF Head(col) \in seen THEN Unique(Tail(col), seen)
    ELSE <<Head(col)>> \o Unique(Tail(col), seen \cup {Head(col)})

\* faulty variant: tickers of the post rows are iterated too
UniqueTickersWithPosts ==
    Unique([i \in DOMAIN DfStocks |-> DfStocks[i].StockName]
           \o [i \in DOMAIN DfTweets |-> DfTweets[i].StockName], {})

\* df_stocks['Stock Name'].unique(): order of first appearance, NaN kept
UniqueTickers ==
    Unique([i \in DOMAIN DfStocks |-> DfStocks[i].StockName], {})

-----------------------------------------------------------------------------
(* run_pipeline, step 4: the per-ticker body *)

\* faulty variant: every price bar is taken, whatever its ticker
StockSubsetUnfiltered(t) == SelectSeq(DfStocks, LAMBDA r : r.StockName # NaN)

\* df_stocks[df_stocks['Stock Name'] == ticker]
StockSubset(t) == SelectSeq(DfStocks, LAMBDA r : PdEq(r.StockName, t))

\* faulty variant: the posts of every ticker are taken
TweetSubsetUnfiltered(t) == SelectSeq(DfTweets, LAMBDA r : r.StockName # NaN)

\* df_tweets[df_tweets['Stock Name'] == ticker]
TweetSubset(t) == SelectSeq(DfTweets, LAMBDA r : PdEq(r.StockName, t))

\* groupby('Date')['sentiment_score'].mean().reset_index(): one row per
\* date, dates ascending
GroupByDateMean(ts) ==
    LET ds == SortedSeq({ts[i].Date : i \in DOMAIN ts})
        scores(d) ==
            LET m == SelectSeq(ts, LAMBDA r : r.Date = d)
            IN  [k \in DOMAIN m |-> m[k].sentiment_score]
    IN  [i \in DOMAIN ds |->
            [Date |-> ds[i], daily_sentiment |-> Mean(scores(ds[i]))]]

\* faulty variant: the posts are joined without being aggregated per date
DailyUnaggregated(ts) ==
    [i \in DOMAIN ts |->
        [Date |-> ts[i].Date,
         daily_sentiment |-> Rat(ts[i].sentiment_score, 1)]]

\* lines 67-72: the daily mean, or an empty frame for a ticker with no post
DailySentiment(ts) == IF ts # <<>> THEN GroupByDateMean(ts) ELSE <<>>

\* pd.merge(stock_subset, daily_sentiment, on='Date', how='left'): left
\* order kept, one output row per matching right row, NaN when none matches
Merge(left, right) ==
    Concat([i \in DOMAIN left |->
        LET m == SelectSeq(right, LAMBDA r : r.Date = left[i].Date)
        IN  IF m = <<>>
            THEN <<[StockName |-> left[i].StockName, Date |-> left[i].Date,
                    Close |-> left[i].Close, daily_sentiment |-> Null]>>
            ELSE [k \in DOMAIN m |->
                    [StockName |-> left[i].StockName, Date |-> left[i].Date,
                     Close |-> left[i].Close,
                     daily_sentiment |-> m[k].daily_sentiment]]])

RECURSIVE InsertByDate(_, _)
InsertByDate(sorted, r) ==
    IF sorted = <<>> THEN <<r>>
    ELSE IF r.Date < Head(sorted).Date THEN <<r>> \o sorted
    ELSE <<Head(sorted)>> \o InsertByDate(Tail(sorted), r)

RECURSIVE SortByDate(_)
SortByDate(frame) ==
    IF frame = <<>> THEN <<>>
    ELSE InsertByDate(SortByDate(SubSeq(frame, 1, Len(frame) - 1)),
                      frame[Len(frame)])

\* faulty variant: the merged frame is left in file order
SortValuesSkipped(frame) == frame

\* merged_df.sort_values(by='Date')
SortValues(frame) == SortByDate(frame)

\* Series.ffill(limit): a NaN takes the last valid value while at most
\* `limit` consecutive NaNs have followed it
RECURSIVE FFillFrom(_, _, _, _)
FFillFrom(col, limit, last, gap) ==
    IF col = <<>> THEN <<>>
    ELSE IF Head(col) # Null
         THEN <<Head(col)>> \o FFillFrom(Tail(col), limit, Head(col), 0)
    ELSE IF last # Null /\ gap < limit
         THEN <<last>> \o FFillFrom(Tail(col), limit, last, gap + 1)
    ELSE <<Null>> \o FFillFrom(Tail(col), limit, last, gap + 1)

\* faulty variant: the forward fill has no limit
FFillUnlimited(col) == FFillFrom(col, Len(col), Null, 0)

\* merged_df['daily_sentiment'].ffill(limit=7)
FFill(col) == FFillFrom(col, MemoryWindow, Null, 0)

\* faulty variant: the remaining NaNs are left in place
FillNaSkipped(col) == col

\* .fillna(0)
FillNa(col) == [i \in DOMAIN col |-> IF col[i] = Null THEN Zero ELSE col[i]]

\* lines 59-83: merged_df of ticker t as it is handed to to_csv
MergedDf(t) ==
    LET m == SortValues(Merge(StockSubset(t), DailySentiment(TweetSubset(t))))
        col == FillNa(FFill([i \in DOMAIN m |-> m[i].daily_sentiment]))
    IN  [i \in DOMAIN m |-> [m[i] EXCEPT !.daily_sentiment = col[i]]]

-----------------------------------------------------------------------------
(* The processed store: one CSV file per ticker *)

\* no file / a file: `header` is false while the file holds zero bytes
NoFile == [exists |-> FALSE, header |-> FALSE, rows |-> <<>>]

\* str(date) written by to_csv; parse_dates reads it back as a Timestamp
FormatDate(d) == [iso |-> d]

ParseDate(cell) == [day |-> cell.iso, tod |-> 0]

\* the data lines to_csv(index=False) writes for a frame
CsvRows(frame) ==
    [i \in DOMAIN frame |->
        [Date |-> FormatDate(frame[i].Date),
         StockName |-> frame[i].StockName,
         Close |-> frame[i].Close,
         daily_sentiment |-> frame[i].daily_sentiment]]

\* the file to_csv leaves once it has returned
FullFile(frame) == [exists |-> TRUE, header |-> TRUE, rows |-> CsvRows(frame)]

\* os.path.join(OUTPUT_DIR, f"{ticker}_processed.csv") names a file in
\* OUTPUT_DIR only when the ticker holds no path separator; otherwise the
\* parent directory does not exist and to_csv raises OSError
Writable(t) == t \notin {"A/B"}

\* faulty variant: every ticker is written to the same file
OutputFileShared(t) == "A"

\* os.path.join(OUTPUT_DIR, f"{ticker}_processed.csv"): the file of a
\* ticker in the store; different tickers name different files
OutputFile(t) == t

\* faulty variant: the output file is opened for appending
OpenAppend(f) == [exists |-> TRUE, header |-> f.header, rows |-> f.rows]

\* open(output_file, 'w'): the file exists and holds zero bytes
OpenWrite(f) == [exists |-> TRUE, header |-> FALSE, rows |-> <<>>]

\* one flush of the write buffer: the header and the next rows reach the file
Flushed(f, lines) ==
    [exists |-> TRUE, header |-> TRUE, rows |-> f.rows \o lines]

-----------------------------------------------------------------------------
(* src/src/data_loader.py *)

\* faulty variant: the tickers of the raw price rows are listed
AvailableFromPrices == Range(UniqueTickers) \cap Tickers

\* get_available_tickers: the stems of the *_processed.csv files present
GetAvailableTickers == {t \in Tickers : store[t].exists}

\* faulty variant: a missing file loads as an empty frame
LoadWithoutCheck(t) ==
    [status |-> "ok",
     rows |-> [i \in DOMAIN store[t].rows |->
                 [store[t].rows[i] EXCEPT !.Date = ParseDate(@)]]]

\* load_stock_data: FileNotFoundError, or pd.read_csv of the file as it is
\* now (EmptyDataError on a zero-byte file)
LoadStockData(t) ==
    IF ~store[t].exists THEN [status |-> "FileNotFoundError", rows |-> <<>>]
    ELSE IF ~store[t].header THEN [status |-> "EmptyDataError", rows |-> <<>>]
    ELSE [status |-> "ok",
          rows |-> [i \in DOMAIN store[t].rows |->
                      [store[t].rows[i] EXCEPT !.Date = ParseDate(@)]]]

-----------------------------------------------------------------------------
(* Raw inputs and initial stores the program can be started on *)

RECURSIVE Reverse(_)
Reverse(s) == IF s = <<>> THEN <<>> ELSE Reverse(Tail(s)) \o <<Head(s)>>

\* the trading days: day 2 is a day without price bars
Trading == Dates \ {2}

CloseOn(d) == 10000 + 100 * d

\* the price bars of ticker t on the days of cal, dates ascending
PriceRowsOf(t, cal) ==
    LET ds == SortedSeq(cal)
    IN  [i \in DOMAIN ds |->
            [ticker |-> t, date |-> [day |-> ds[i], tod |-> 0],
             close |-> CloseOn(ds[i])]]

\* price files of A and/or B over the trading days, in ascending or in
\* descending file order
CalendarPriceFiles ==
    {IF desc THEN Reverse(PriceRowsOf("A", ca) \o PriceRowsOf("B", cb))
             ELSE PriceRowsOf("A", ca) \o PriceRowsOf("B", cb) :
        <<ca, cb, desc>> \in {{}, Trading} \X {{}, Trading} \X BOOLEAN}

\* both tickers in ascending file order, both in descending file order,
\* and A alone (B then has posts but no price rows)
MemoryPriceFiles ==
    {PriceRowsOf("A", Trading) \o PriceRowsOf("B", Trading),
     Reverse(PriceRowsOf("A", Trading) \o PriceRowsOf("B", Trading)),
     PriceRowsOf("A", Trading)}

\* post number c of the post universe: ticker and day; posts are timed at
\* noon, the i-th post of a file reads "good" when i is odd, else "bad"
PostOf(c, i) ==
    [ticker |-> IF c < MaxDate THEN "A" ELSE "B",
     date |-> [day |-> (c % MaxDate) + 1, tod |-> 1],
     text |-> IF i % 2 = 1 THEN "good" ELSE "bad"]

\* post files of at most n posts (as multisets: codes ascending)
PostFiles(n) ==
    {[i \in DOMAIN cs |-> PostOf(cs[i], i)] :
        cs \in {c \in UNION {[1..k -> 0..(2 * MaxDate - 1)] : k \in 0..n} :
                   \A i \in DOMAIN c : i = 1 \/ c[i - 1] <= c[i]}}

\* price rows that may be malformed: a missing ticker cell, a ticker that
\* is no file name, an unparseable Date cell, a non-numeric Close cell
OddPriceRows ==
    [ticker : {"A", "B", "A/B", NaN},
     date : {[day |-> 1, tod |-> 0], BadDate},
     close : {CloseOn(1), BadClose}]

\* PriceBar: at most one row per (ticker, trading day)
OneBarPerDay(rows) ==
    \A i, j \in DOMAIN rows :
        (i # j /\ rows[i].ticker = rows[j].ticker /\ rows[i].ticker # NaN
         /\ Parseable(rows[i].date) /\ Parseable(rows[j].date))
            => ToDate(rows[i].date) # ToDate(rows[j].date)

OddPriceFiles ==
    {f \in UNION {[1..k -> OddPriceRows] : k \in 0..MaxPriceRows} :
        OneBarPerDay(f)}

OddPostFiles ==
    {<<>>,
     <<[ticker |-> "A", date |-> [day |-> 1, tod |-> 1], text |-> "good"]>>,
     <<[ticker |-> "B", date |-> BadDate, text |-> "bad"]>>}

EmptyStore == [t \in Tickers |-> NoFile]

\* records an earlier run left behind, from raw files that have since
\* been replaced: three rows per ticker, a post on the first day
StaleStore ==
    [t \in Tickers |->
        IF t \in {"A", "B"}
        THEN [exists |-> TRUE, header |-> TRUE,
              rows |-> [i \in 1..3 |->
                          [Date |-> FormatDate(i), StockName |-> t,
                           Close |-> 9000 + i, daily_sentiment |-> <<-50, 1>>]]]
        ELSE NoFile]

NoDf == [ticker |-> NaN, status |-> "none", rows |-> <<>>, shocked |-> FALSE]

\* run_pipeline has no return statement with a value: it returns None
NoneResult == [isNone |-> TRUE, skipped |-> {}]

\* the pipeline, the store and the Sentiment page before anything has run
PipelineInit(sf, tf, st, rd) ==
    /\ stockFile = sf
    /\ tweetFile = tf
    /\ store = st
    /\ store0 = st
    /\ persisted = {t \in Tickers : st[t].exists}
    /\ startStore = st
    /\ readers = rd
    /\ pc = "idle"
    /\ queue = <<>>
    /\ cur = NaN
    /\ wpos = 0
    /\ logged = {}
    /\ result = NoneResult
    /\ uiStatus = "none"
    /\ lastRun = "none"
    /\ wrote = {}
    /\ runsDone = 0
    /\ firstEnd = [valid |-> FALSE, store |-> st]
    /\ df = NoDf
    /\ order = <<>>

\* no Risk page session, no scan
NoRisk == [stage |-> "none"]

NoScan == [pc |-> "none"]

InitWith(sf, tf, st, rd) ==
    /\ PipelineInit(sf, tf, st, rd)
    /\ risk = NoRisk
    /\ scan = NoScan

Present(rows) == [exists |-> TRUE, rows |-> rows]

Absent == [exists |-> FALSE, rows |-> <<>>]

\* well-formed calendars with up to MaxPosts posts, on an empty store
InitMemory ==
    \E p \in MemoryPriceFiles, q \in PostFiles(MaxPosts) :
        InitWith(Present(p), Present(q), EmptyStore, 0)

\* short price files with malformed rows, on an empty store
InitMalformed ==
    \E p \in OddPriceFiles, q \in OddPostFiles :
        InitWith(Present(p), Present(q), EmptyStore, 0)

\* a raw source is missing
InitMissing ==
    \E p \in {Absent, Present(PriceRowsOf("A", Trading))},
       q \in {Absent, Present(<<>>)}, st \in {EmptyStore, StaleStore} :
        /\ ~(p.exists /\ q.exists)
        /\ InitWith(p, q, st, 0)

\* a re-run over a store that holds records of earlier raw files
InitRerun ==
    \E p \in CalendarPriceFiles, q \in PostFiles(1) :
        InitWith(Present(p), Present(q), StaleStore, 0)

\* a page session loads records while the pipeline may be running
InitReaders ==
    \E p \in {PriceRowsOf("A", Trading),
              PriceRowsOf("B", {1}) \o PriceRowsOf("A", Trading)},
       q \in {<<>>, <<PostOf(0, 1)>>}, st \in {EmptyStore, StaleStore} :
        InitWith(Present(p), Present(q), st, 1)

\* several posts of one ticker on one day, at different times of day and
\* with different scores, beside posts of another ticker and another day
AggregatePostFiles ==
    {<<[ticker |-> "A", date |-> [day |-> 1, tod |-> 1], text |-> "good"],
       [ticker |-> "B", date |-> [day |-> 1, tod |-> 1], text |-> "bad"],
       [ticker |-> "A", date |-> [day |-> 1, tod |-> 2], text |-> "fine"],
       [ticker |-> "A", date |-> [day |-> 3, tod |-> 1], text |-> "bad"]>>,
     <<[ticker |-> "A", date |-> [day |-> 3, tod |-> 2], text |-> "good"],
       [ticker |-> "A", date |-> [day |-> 3, tod |-> 1], text |-> "good"],
       [ticker |-> "B", date |-> [day |-> 3, tod |-> 1], text |-> "fine"],
       [ticker |-> "A", date |-> [day |-> 3, tod |-> 0], text |-> "bad"]>>}

\* days with several posts to aggregate, on an empty store
InitAggregate ==
    \E q \in AggregatePostFiles :
        InitWith(Present(PriceRowsOf("A", Trading) \o PriceRowsOf("B", Trading)),
                 Present(q), EmptyStore, 0)

Init ==
    \/ InitMemory
    \/ InitMalformed
    \/ InitMissing
    \/ InitRerun
    \/ InitReaders
    \/ InitAggregate

-----------------------------------------------------------------------------
(* The "Process All Datasets" handler and run_pipeline *)

\* bookkeeping when the handler is entered
Entered ==
    /\ startStore' = store
    /\ logged' = {}
    /\ wrote' = {}

\* bookkeeping when run_pipeline is left with the store as st
Left(kind, st) ==
    /\ lastRun' = kind
    /\ runsDone' = IF runsDone < 2 THEN runsDone + 1 ELSE runsDone
    /\ firstEnd' = IF runsDone = 0 THEN [valid |-> TRUE, store |-> st]
                                   ELSE firstEnd

\* lines 17-19: a raw file is missing; the error is printed, run_pipeline
\* returns None and the handler reports success
RunMissing ==
    /\ pc = "idle"
    /\ ~SourcesExist
    /\ Entered
    /\ Left("missing", store)
    /\ result' = NoneResult
    /\ uiStatus' = "success"
    /\ UNCHANGED <<order, risk, scan>>
    /\ UNCHANGED <<stockFile, tweetFile, store, pc, queue, cur, wpos, store0, persisted,
                   readers, df>>

\* lines 26-27: pd.to_datetime raises outside the per-ticker try; the
\* exception reaches the handler, which shows "Pipeline Failed"
RunAbort ==
    /\ pc = "idle"
    /\ SourcesExist
    /\ ~DatesParse
    /\ Entered
    /\ Left("aborted", store)
    /\ uiStatus' = "error"
    /\ UNCHANGED <<order, risk, scan>>
    /\ UNCHANGED <<stockFile, tweetFile, store, pc, queue, cur, wpos, result,
                   store0, persisted, readers, df>>

\* lines 21-54: the frames are loaded and scored, the loop is entered
RunBegin ==
    /\ pc = "idle"
    /\ SourcesExist
    /\ DatesParse
    /\ Entered
    /\ pc' = "loop"
    /\ queue' = UniqueTickers
    /\ order' = UniqueTickers
    /\ UNCHANGED <<risk, scan>>
    /\ UNCHANGED <<stockFile, tweetFile, store, cur, wpos, result, uiStatus,
                   lastRun, runsDone, firstEnd, store0, persisted, readers, df>>

\* lines 62-64: no price row compares equal to the ticker (a NaN ticker)
SkipTicker ==
    /\ pc = "loop"
    /\ queue # <<>>
    /\ StockSubset(Head(queue)) = <<>>
    /\ logged' = logged \cup {[ticker |-> Head(queue), reason |-> "no price data"]}
    /\ queue' = Tail(queue)
    /\ UNCHANGED <<order, risk, scan>>
    /\ UNCHANGED <<stockFile, tweetFile, store, pc, cur, wpos, result,
                   uiStatus, lastRun, wrote, startStore, runsDone, firstEnd,
                   store0, persisted, readers, df>>

\* lines 86-92: to_csv raises before it opens the file; the except branch
\* prints the failure and the loop goes on
FailTicker ==
    /\ pc = "loop"
    /\ queue # <<>>
    /\ StockSubset(Head(queue)) # <<>>
    /\ ~Writable(Head(queue))
    /\ logged' = logged \cup {[ticker |-> Head(queue), reason |-> "OSError"]}
    /\ queue' = Tail(queue)
    /\ UNCHANGED <<order, risk, scan>>
    /\ UNCHANGED <<stockFile, tweetFile, store, pc, cur, wpos, result,
                   uiStatus, lastRun, wrote, startStore, runsDone, firstEnd,
                   store0, persisted, readers, df>>

\* lines 59-87: the frame is built and to_csv opens the output file
OpenOutput ==
    /\ pc = "loop"
    /\ queue # <<>>
    /\ StockSubset(Head(queue)) # <<>>
    /\ Writable(Head(queue))
    /\ store' = [store EXCEPT ![OutputFile(Head(queue))] = OpenWrite(@)]
    /\ pc' = "writing"
    /\ cur' = Head(queue)
    /\ wpos' = 0
    /\ UNCHANGED <<order, risk, scan>>
    /\ UNCHANGED <<stockFile, tweetFile, queue, logged, result, uiStatus,
                   lastRun, wrote, startStore, runsDone, firstEnd, store0, persisted,
                   readers, df>>

\* line 87: to_csv flushes a full buffer while more rows are to come
FlushRows ==
    /\ pc = "writing"
    /\ wpos + BufRows < Len(MergedDf(cur))
    /\ store' = [store EXCEPT ![OutputFile(cur)] =
            Flushed(@, SubSeq(CsvRows(MergedDf(cur)), wpos + 1, wpos + BufRows))]
    /\ wpos' = wpos + BufRows
    /\ UNCHANGED <<order, risk, scan>>
    /\ UNCHANGED <<stockFile, tweetFile, pc, queue, cur, logged, result,
                   uiStatus, lastRun, wrote, startStore, runsDone, firstEnd,
                   store0, persisted, readers, df>>

\* lines 87-89: to_csv writes the rest, closes the file and returns
CloseOutput ==
    /\ pc = "writing"
    /\ wpos + BufRows >= Len(MergedDf(cur))
    /\ store' = [store EXCEPT ![OutputFile(cur)] =
            Flushed(@, SubSeq(CsvRows(MergedDf(cur)), wpos + 1,
                              Len(MergedDf(cur))))]
    /\ wrote' = wrote \cup {cur}
    /\ persisted' = persisted \cup {cur}
    /\ pc' = "loop"
    /\ queue' = Tail(queue)
    /\ cur' = NaN
    /\ wpos' = 0
    /\ UNCHANGED <<order, risk, scan>>
    /\ UNCHANGED <<stockFile, tweetFile, logged, result, uiStatus, lastRun,
                   startStore, runsDone, firstEnd, store0, readers, df>>

\* line 94 and 3_Sentiment.py 40-48: the loop is over, run_pipeline
\* returns None and the handler reports success
RunFinish ==
    /\ pc = "loop"
    /\ queue = <<>>
    /\ pc' = "idle"
    /\ Left("completed", store)
    /\ result' = NoneResult
    /\ uiStatus' = "success"
    /\ UNCHANGED <<order, risk, scan>>
    /\ UNCHANGED <<stockFile, tweetFile, store, queue, cur, wpos, logged,
                   wrote, startStore, store0, persisted, readers, df>>

-----------------------------------------------------------------------------
(* A page session: 3_Sentiment.py lines 72-106 *)

ShockFactors == {50, 100}

\* v - shock_factor / 100, v in hundredths
ShockSentiment(v, shock) == Rat(v[1] - shock * v[2], v[2])

\* Close * (1 - (shock_factor / 100) * 0.15), in cents
ShockClose(c, shock) == (c * (10000 - 15 * shock)) \div 10000

\* lines 98-106: every sentiment is lowered, the last 7 closes are dropped
Shocked(rows, shock) ==
    [i \in DOMAIN rows |->
        [rows[i] EXCEPT
            !.daily_sentiment = ShockSentiment(@, shock),
            !.Close = IF i > Len(rows) - 7 THEN ShockClose(@, shock) ELSE @]]

\* line 73: df = load_stock_data(selected_ticker)
Load(t) ==
    /\ readers > 0
    /\ df' = [ticker |-> t, status |-> LoadStockData(t).status,
              rows |-> LoadStockData(t).rows, shocked |-> FALSE]
    /\ UNCHANGED <<order, risk, scan>>
    /\ UNCHANGED <<stockFile, tweetFile, store, pc, queue, cur, wpos, logged,
                   result, uiStatus, lastRun, wrote, startStore, runsDone,
                   firstEnd, store0, persisted, readers>>

\* lines 90-106: the session changes its own copy in place
Shock(shock) ==
    /\ readers > 0
    /\ df.status = "ok"
    /\ ~df.shocked
    /\ df' = [df EXCEPT !.rows = Shocked(@, shock), !.shocked = TRUE]
    /\ UNCHANGED <<order, risk, scan>>
    /\ UNCHANGED <<stockFile, tweetFile, store, pc, queue, cur, wpos, logged,
                   result, uiStatus, lastRun, wrote, startStore, runsDone,
                   firstEnd, store0, persisted, readers>>

Next ==
    \/ RunMissing
    \/ RunAbort
    \/ RunBegin
    \/ SkipTicker
    \/ FailTicker
    \/ OpenOutput
    \/ FlushRows
    \/ CloseOutput
    \/ RunFinish
    \/ \E t \in Tickers : Load(t)
    \/ \E shock \in ShockFactors : Shock(shock)

Spec == Init /\ [][Next]_vars

-----------------------------------------------------------------------------
(* run_pipeline with the loop of lines 56-92 taken in any order *)

\* the orderings of a sequence without repetitions
Orderings(s) == {p \in [1..Len(s) -> Range(s)] : Range(p) = Range(s)}

\* RunBegin, but the tickers are iterated in an arbitrary order
RunBeginAnyOrder ==
    /\ pc = "idle"
    /\ SourcesExist
    /\ DatesParse
    /\ Entered
    /\ pc' = "loop"
    /\ \E p \in Orderings(UniqueTickers) :
          /\ queue' = p
          /\ order' = p
    /\ UNCHANGED <<risk, scan>>
    /\ UNCHANGED <<stockFile, tweetFile, store, cur, wpos, result, uiStatus,
                   lastRun, runsDone, firstEnd, store0, persisted, readers, df>>

\* a price file with two writable tickers, a row without ticker and a
\* ticker that names no file
OrderPriceFile ==
    PriceRowsOf("A", Trading)
        \o <<[ticker |-> NaN, date |-> [day |-> 1, tod |-> 0],
              close |-> CloseOn(1)]>>
        \o PriceRowsOf("B", Trading)
        \o PriceRowsOf("A/B", {1})

InitOrder ==
    \E q \in PostFiles(1), st \in {EmptyStore, StaleStore} :
        InitWith(Present(OrderPriceFile), Present(q), st, 0)

NextOrder ==
    \/ RunBeginAnyOrder
    \/ SkipTicker
    \/ FailTicker
    \/ OpenOutput
    \/ FlushRows
    \/ CloseOutput
    \/ RunFinish

SpecOrder == InitOrder /\ [][NextOrder]_vars

\* lines 57-92 for one ticker as a whole, on the store st
TickerStep(t, st) ==
    IF StockSubset(t) = <<>> \/ ~Writable(t) THEN st
    ELSE [st EXCEPT ![OutputFile(t)] = FullFile(MergedDf(t))]

\* the loop of lines 56-92 over the tickers of q, one after the other
RECURSIVE LoopOver(_, _)
LoopOver(q, st) ==
    IF q = <<>> THEN st ELSE LoopOver(Tail(q), TickerStep(Head(q), st))

-----------------------------------------------------------------------------
(* Floating-point values of the risk engine and the opportunity scan *)

\* A float is an exact rational <<num, den>> (<<1, 2>> is 0.5) or Null for
\* NaN.  A value that involves a square root is kept exactly, as
\* coef * sqrt(rad), in a record [coef, rad].
One == <<1, 1>>

RAdd(a, b) == Rat(a[1] * b[2] + b[1] * a[2], a[2] * b[2])

RSub(a, b) == Rat(a[1] * b[2] - b[1] * a[2], a[2] * b[2])

RMul(a, b) == Rat(a[1] * b[1], a[2] * b[2])

\* IEEE division: 0/0 is NaN, x/0 is an infinity (<<1, 0>> or <<-1, 0>>)
RDiv(a, b) ==
    IF b[1] = 0
    THEN IF a[1] = 0 THEN Null ELSE <<IF a[1] < 0 THEN -1 ELSE 1, 0>>
    ELSE Rat(a[1] * b[2], a[2] * b[1])

\* arithmetic with NaN gives NaN
FSub(a, b) == IF a = Null \/ b = Null THEN Null ELSE RSub(a, b)

FMul(a, b) == IF a = Null \/ b = Null THEN Null ELSE RMul(a, b)

FDiv(a, b) == IF a = Null \/ b = Null THEN Null ELSE RDiv(a, b)

\* comparisons with NaN are False
FLess(a, b) == a # Null /\ b # Null /\ a[1] * b[2] < b[1] * a[2]

FGreater(a, b) == FLess(b, a)

FGeq(a, b) == a # Null /\ b # Null /\ a[1] * b[2] >= b[1] * a[2]

FLeq(a, b) == FGeq(b, a)

NaNValue == [coef |-> Null, rad |-> Null]

ZeroValue == [coef |-> Zero, rad |-> One]

\* coef * sqrt(rad); NaN and zero have one form each
Surd(c, r) ==
    IF c = Null \/ r = Null THEN NaNValue
    ELSE IF c[1] = 0 \/ r[1] = 0 THEN ZeroValue
    ELSE [coef |-> c, rad |-> r]

FromRat(q) == Surd(q, One)

Sqrt(q) == Surd(One, q)

SMul(x, y) == Surd(FMul(x.coef, y.coef), FMul(x.rad, y.rad))

SDiv(x, y) == Surd(FDiv(x.coef, y.coef), FDiv(x.rad, y.rad))

\* x == 0 of a float: False for NaN
IsZero(x) == x = ZeroValue

IsNaN(x) == x = NaNValue

RECURSIVE RSum(_)
RSum(col) == IF col = <<>> THEN Zero ELSE RAdd(Head(col), RSum(Tail(col)))

\* faulty variant: the NaN of the first row is kept
DropNaSkipped(col) == col

\* Series.dropna()
DropNa(col) == SelectSeq(col, LAMBDA x : x # Null)

\* the values a pandas reduction sees (skipna=True)
SkipNa(col) == SelectSeq(col, LAMBDA x : x # Null)

\* Series.mean(): NaN skipped, NaN when nothing is left
SeriesMean(col) ==
    LET c == SkipNa(col)
    IN  IF c = <<>> THEN Null ELSE RDiv(RSum(c), <<Len(c), 1>>)

\* Series.var(): NaN skipped, ddof=1, NaN for fewer than two values
SeriesVar(col) ==
    LET c == SkipNa(col)
        m == SeriesMean(col)
    IN  IF Len(c) < 2 THEN Null
        ELSE RDiv(RSum([i \in DOMAIN c |->
                           RMul(RSub(c[i], m), RSub(c[i], m))]),
                  <<Len(c) - 1, 1>>)

\* Series.std(): the sample standard deviation
SeriesStd(col) == Sqrt(SeriesVar(col))

\* Series.pct_change(): NaN on the first row, then (c[i] - c[i-1]) / c[i-1]
PctChange(col) ==
    [i \in DOMAIN col |->
        IF i = 1 THEN Null
        ELSE FDiv(<<col[i] - col[i - 1], 1>>, <<col[i - 1], 1>>)]

RECURSIVE InsertAsc(_, _)
InsertAsc(sorted, x) ==
    IF sorted = <<>> THEN <<x>>
    ELSE IF FLess(x, Head(sorted)) THEN <<x>> \o sorted
    ELSE <<Head(sorted)>> \o InsertAsc(Tail(sorted), x)

RECURSIVE SortAsc(_)
SortAsc(col) ==
    IF col = <<>> THEN <<>> ELSE InsertAsc(SortAsc(Tail(col)), Head(col))

\* np.percentile(a, q): linear interpolation between the order statistics
\* around position q/100 * (n - 1); NaN when a holds a NaN or is empty
Percentile(a, q) ==
    IF a = <<>> \/ \E i \in DOMAIN a : a[i] = Null THEN Null
    ELSE LET s == SortAsc(a)
             n == Len(s)
             lo == (q * (n - 1)) \div 100
             frac == Rat((q * (n - 1)) % 100, 100)
         IN  IF lo + 1 >= n THEN s[n]
             ELSE RAdd(s[lo + 1], RMul(frac, RSub(s[lo + 2], s[lo + 1])))

-----------------------------------------------------------------------------
(* src/src/risk_engine.py *)

\* np.sqrt(252)
TradingDays == 252

\* np.percentile(clean_returns, 5)
VarLevel == 5

\* risk_free_rate: float = 0.02, in percent
DefaultRiskFree == 2

\* a DataFrame: its columns and its rows
Frame(cols, rows) == [cols |-> cols, rows |-> rows]

Column(frame, c) == [i \in DOMAIN frame.rows |-> frame.rows[i][c]]

\* df['Returns'] = df['Close'].pct_change(): the caller's frame gets the
\* column
WithReturns(frame) ==
    LET ret == PctChange(Column(frame, "Close"))
    IN  Frame(frame.cols \cup {"Returns"},
              [i \in DOMAIN frame.rows |->
                  [Returns |-> ret[i]] @@ frame.rows[i]])

ZeroMetrics ==
    [var_95 |-> ZeroValue, volatility |-> ZeroValue, sharpe |-> ZeroValue]

\* calculate_risk_metrics(df, risk_free_rate): the frame as the call
\* leaves it and the dict it returns; risk_free_rate is in percent
CalculateRiskMetrics(frame, risk_free_rate) ==
    IF "Close" \notin frame.cols
    THEN [df |-> frame, out |-> ZeroMetrics]
    ELSE LET after == WithReturns(frame)
             clean_returns == DropNa(Column(after, "Returns"))
             std == SeriesStd(clean_returns)
             risk_free_daily == Rat(risk_free_rate, 100 * TradingDays)
             excess_return == FSub(SeriesMean(clean_returns), risk_free_daily)
         IN  [df |-> after,
              out |->
                IF clean_returns = <<>> THEN ZeroMetrics
                ELSE [var_95 |-> FromRat(Percentile(clean_returns, VarLevel)),
                      volatility |-> SMul(std, Sqrt(<<TradingDays, 1>>)),
                      sharpe |->
                        IF IsZero(std) THEN ZeroValue
                        ELSE SMul(SDiv(FromRat(excess_return), std),
                                  Sqrt(<<TradingDays, 1>>))]]

-----------------------------------------------------------------------------
(* The Risk page: pages/2_Risk.py lines 31-105 *)

\* rows of the longest record the Risk page is started on
MaxRiskRows == 4

\* closes in cents
RiskCloses == {100, 200, 400}

\* risk-free rates in percent
RiskFreeRates == {0, DefaultRiskFree, 10}

\* the columns read_csv finds in a processed file
ProcessedColumns == {"Date", "StockName", "Close", "daily_sentiment"}

\* the record of a ticker without posts whose closes are `closes`, one
\* row per trading day
RiskRecord(t, closes) ==
    FullFile([i \in DOMAIN closes |->
                [StockName |-> t, Date |-> SortedSeq(Trading)[i],
                 Close |-> closes[i], daily_sentiment |-> Zero]])

RiskRecords ==
    {RiskRecord("A", closes) :
        closes \in UNION {[1..n -> RiskCloses] : n \in 0..MaxRiskRows}}

\* a Risk page session opens on a store that holds one record
InitRisk ==
    \E f \in RiskRecords :
        /\ PipelineInit(Absent, Absent, [EmptyStore EXCEPT !["A"] = f], 0)
        /\ risk = [stage |-> "start"]
        /\ scan = NoScan

\* lines 31-52: a listed ticker is selected and its record loaded
RiskLoad(t) ==
    /\ risk.stage = "start"
    /\ t \in GetAvailableTickers
    /\ risk' = IF LoadStockData(t).status = "ok"
               THEN [stage |-> "loaded", ticker |-> t,
                     df |-> Frame(ProcessedColumns, LoadStockData(t).rows),
                     loaded |-> Frame(ProcessedColumns, LoadStockData(t).rows)]
               ELSE [stage |-> "failed", error |-> LoadStockData(t).status]
    /\ UNCHANGED <<stockFile, tweetFile, store, pc, queue, cur, wpos, logged,
                   result, uiStatus, lastRun, wrote, startStore, runsDone,
                   firstEnd, store0, persisted, readers, df, order, scan>>

\* line 55: risk_data = calculate_risk_metrics(df); the page passes no
\* rate, other callers may
RiskCalculate(risk_free_rate) ==
    /\ risk.stage = "loaded"
    /\ risk' = [stage |-> "computed", ticker |-> risk.ticker,
                df |-> CalculateRiskMetrics(risk.df, risk_free_rate).df,
                loaded |-> risk.loaded,
                risk_free_rate |-> risk_free_rate,
                risk_data |-> CalculateRiskMetrics(risk.df, risk_free_rate).out]
    /\ UNCHANGED <<stockFile, tweetFile, store, pc, queue, cur, wpos, logged,
                   result, uiStatus, lastRun, wrote, startStore, runsDone,
                   firstEnd, store0, persisted, readers, df, order, scan>>

\* lines 104-105: last_price = df['Close'].iloc[-1] and
\* daily_vol = df['Returns'].std()
SimulationInputs(frame) ==
    IF frame.rows = <<>> THEN [error |-> "IndexError"]
    ELSE IF "Returns" \notin frame.cols THEN [error |-> "KeyError"]
    ELSE [error |-> "none",
          last_price |-> frame.rows[Len(frame.rows)].Close,
          daily_vol |-> SeriesStd(Column(frame, "Returns"))]

RiskSimulate ==
    /\ risk.stage = "computed"
    /\ risk' = [risk EXCEPT !.stage = "simulated"]
                 @@ [sim |-> SimulationInputs(risk.df)]
    /\ UNCHANGED <<stockFile, tweetFile, store, pc, queue, cur, wpos, logged,
                   result, uiStatus, lastRun, wrote, startStore, runsDone,
                   firstEnd, store0, persisted, readers, df, order, scan>>

NextRisk ==
    \/ \E t \in Tickers : RiskLoad(t)
    \/ \E rf \in RiskFreeRates : RiskCalculate(rf)
    \/ RiskSimulate

SpecRisk == InitRisk /\ [][NextRisk]_vars

-----------------------------------------------------------------------------
(* src/src/forecasting.py: find_market_opportunities *)

\* avg_return = month_data['Returns'].mean() * 30
MonthDays == 30

\* the tolerance 0.2 of the match logic, in hundredths
Band == 20

\* Series.dt.month_name(): calendar day 1 is 28 October, so days 1 to 4
\* fall in October and the later days in November
MonthName(d) == IF d.day <= 4 THEN "October" ELSE "November"

\* lines 49-50: the frame with its Month and Returns columns
WithMonthAndReturns(rows) ==
    LET ret == PctChange([i \in DOMAIN rows |-> rows[i].Close])
    IN  [i \in DOMAIN rows |->
            [Month |-> MonthName(rows[i].Date), Returns |-> ret[i]]
                @@ rows[i]]

\* faulty variant: the rows of every month are taken
MonthDataUnfiltered(rows, target_month_name) == WithMonthAndReturns(rows)

\* line 53: month_data = df[df['Month'] == target_month_name]
MonthData(rows, target_month_name) ==
    SelectSeq(WithMonthAndReturns(rows),
              LAMBDA r : r.Month = target_month_name)

\* faulty variant: the preference is applied without the tolerance
MatchesExact(min_sentiment, avg_sentiment) ==
    \/ min_sentiment >= 0 /\ FGeq(avg_sentiment, <<min_sentiment, 1>>)
    \/ min_sentiment < 0 /\ FLeq(avg_sentiment, <<min_sentiment, 1>>)

\* lines 63-70: the match logic; min_sentiment is in hundredths
Matches(min_sentiment, avg_sentiment) ==
    \/ /\ min_sentiment >= 0
       /\ FGeq(avg_sentiment, <<min_sentiment - Band, 1>>)
    \/ /\ min_sentiment < 0
       /\ FLeq(avg_sentiment, <<min_sentiment + Band, 1>>)

\* lines 59-61 and 73-78: the entry of a ticker whose month_data is md
Opportunity(ticker, md) ==
    [Ticker |-> ticker,
     Avg_Monthly_Return |->
        FMul(SeriesMean([i \in DOMAIN md |-> md[i].Returns]),
             <<MonthDays, 1>>),
     Avg_Sentiment |-> SeriesMean([i \in DOMAIN md |-> md[i].daily_sentiment]),
     Win_Rate |->
        Rat(Len(SelectSeq(md, LAMBDA r : FGreater(r.Returns, Zero))), Len(md))]

\* lines 44-81: the body of the loop for one file: "failed" when the try
\* raises, "skipped" when no row is in the month or the match logic says
\* no, "matched" with the entry that is appended
Analyse(ticker, target_month_name, min_sentiment) ==
    IF LoadStockData(ticker).status # "ok" THEN [outcome |-> "failed"]
    ELSE LET md == MonthData(LoadStockData(ticker).rows, target_month_name)
         IN  IF md = <<>> THEN [outcome |-> "skipped"]
             ELSE IF Matches(min_sentiment, Opportunity(ticker, md).Avg_Sentiment)
                  THEN [outcome |-> "matched", entry |-> Opportunity(ticker, md)]
                  ELSE [outcome |-> "skipped"]

\* o sorts before h: a larger return first, NaN last
SortsBefore(o, h) ==
    /\ o.Avg_Monthly_Return # Null
    /\ \/ h.Avg_Monthly_Return = Null
       \/ FGreater(o.Avg_Monthly_Return, h.Avg_Monthly_Return)

RECURSIVE InsertDescending(_, _)
InsertDescending(sorted, o) ==
    IF sorted = <<>> THEN <<o>>
    ELSE IF SortsBefore(o, Head(sorted)) THEN <<o>> \o sorted
    ELSE <<Head(sorted)>> \o InsertDescending(Tail(sorted), o)

\* opp_df.sort_values(by='Avg_Monthly_Return', ascending=False)
RECURSIVE SortDescending(_)
SortDescending(opps) ==
    IF opps = <<>> THEN <<>>
    ELSE InsertDescending(SortDescending(SubSeq(opps, 1, Len(opps) - 1)),
                          opps[Len(opps)])

-----------------------------------------------------------------------------
(* A scan: pages/1_Forecast.py line 148 calls find_market_opportunities *)

\* rows of the longest record a scan is started on
MaxScanRows == 3

\* the calendar days of the scanned records: day 4 is the last day of
\* October
ScanDays == 4..(3 + MaxScanRows)

\* closes in cents
ScanCloses == {100, 200}

\* sentiments in hundredths
ScanSentiments == {<<20, 1>>, <<50, 1>>}

\* the months of the selectbox that the records reach
ScanMonths == {"October", "November"}

\* positions of the sentiment slider, in hundredths
ScanPreferences == {50, 0, -50}

\* a persisted record: one row per day of ds
ScanRecord(t, ds, closes, sents) ==
    FullFile([i \in DOMAIN ds |->
                [StockName |-> t, Date |-> ds[i], Close |-> closes[i],
                 daily_sentiment |-> sents[i]]])

\* the records of ticker t over the scan days
ScanRecords(t) ==
    {ScanRecord(t, SortedSeq(D), closes, sents) :
        <<D, closes, sents>> \in
            UNION {{D \in SUBSET ScanDays : Cardinality(D) = n}
                   \X [1..n -> ScanCloses] \X [1..n -> ScanSentiments] :
                      n \in 1..MaxScanRows}}

\* what the store may hold for a second ticker: nothing, a file whose
\* writing has just begun (zero bytes), or one of three records
OtherRecords(t) ==
    {NoFile,
     OpenWrite(NoFile),
     ScanRecord(t, <<4, 5, 6>>, <<100, 100, 200>>,
                <<<<20, 1>>, <<20, 1>>, <<20, 1>>>>),
     ScanRecord(t, <<5>>, <<100>>, <<<<50, 1>>>>),
     ScanRecord(t, <<4, 5>>, <<200, 100>>, <<<<-50, 1>>, <<-50, 1>>>>)}

\* a scan is about to be started on a store of one or two records
InitScan ==
    \E a \in ScanRecords("A"), b \in OtherRecords("B") :
        /\ PipelineInit(Absent, Absent,
                        [EmptyStore EXCEPT !["A"] = a, !["B"] = b], 0)
        /\ risk = NoRisk
        /\ scan = [pc |-> "ready"]

\* lines 36-42: the list is emptied and the files are globbed
ScanBegin(target_month_name, min_sentiment) ==
    /\ scan.pc = "ready"
    /\ scan' = [pc |-> "loop", month |-> target_month_name,
                min_sentiment |-> min_sentiment,
                todo |-> GetAvailableTickers,
                opportunities |-> <<>>, failed |-> {}]
    /\ UNCHANGED <<stockFile, tweetFile, store, pc, queue, cur, wpos, logged,
                   result, uiStatus, lastRun, wrote, startStore, runsDone,
                   firstEnd, store0, persisted, readers, df, order, risk>>

\* lines 42-81: the next file, in whatever order glob yields the files
ScanFile(t) ==
    /\ scan.pc = "loop"
    /\ t \in scan.todo
    /\ LET a == Analyse(t, scan.month, scan.min_sentiment)
       IN  scan' = [scan EXCEPT
                !.todo = @ \ {t},
                !.opportunities =
                    IF a.outcome = "matched" THEN Append(@, a.entry) ELSE @,
                !.failed = IF a.outcome = "failed" THEN @ \cup {t} ELSE @]
    /\ UNCHANGED <<stockFile, tweetFile, store, pc, queue, cur, wpos, logged,
                   result, uiStatus, lastRun, wrote, startStore, runsDone,
                   firstEnd, store0, persisted, readers, df, order, risk>>

\* lines 83-89: an empty frame, or the entries sorted by return
ScanFinish ==
    /\ scan.pc = "loop"
    /\ scan.todo = {}
    /\ scan' = [pc |-> "done", month |-> scan.month,
                min_sentiment |-> scan.min_sentiment,
                failed |-> scan.failed,
                result |-> IF scan.opportunities = <<>> THEN <<>>
                           ELSE SortDescending(scan.opportunities)]
    /\ UNCHANGED <<stockFile, tweetFile, store, pc, queue, cur, wpos, logged,
                   result, uiStatus, lastRun, wrote, startStore, runsDone,
                   firstEnd, store0, persisted, readers, df, order, risk>>

NextScan ==
    \/ \E m \in ScanMonths, p \in ScanPreferences : ScanBegin(m, p)
    \/ \E t \in Tickers : ScanFile(t)
    \/ ScanFinish

SpecScan == InitScan /\ [][NextScan]_vars

-----------------------------------------------------------------------------
(* What the claims speak of, read off the raw files directly *)

\* the posts of ticker t on calendar day d, as indexes into the post file
PostsOn(t, d) ==
    {i \in DOMAIN tweetFile.rows :
        tweetFile.rows[i].ticker = t /\ tweetFile.rows[i].date.day = d}

\* the calendar days on which ticker t has a post
PostDays(t) ==
    {tweetFile.rows[i].date.day :
        i \in {j \in DOMAIN tweetFile.rows : tweetFile.rows[j].ticker = t}}

\* the price bars of ticker t, as indexes into the price file
BarsOf(t) == {i \in DOMAIN stockFile.rows : stockFile.rows[i].ticker = t}

\* the trading days of ticker t in the price file
BarDays(t) == {stockFile.rows[i].date.day : i \in BarsOf(t)}

\* the tickers of the price file
PriceTickers == {stockFile.rows[i].ticker : i \in DOMAIN stockFile.rows} \ {NaN}

RECURSIVE ScoreSum(_)
ScoreSum(I) ==
    IF I = {} THEN 0
    ELSE LET i == CHOOSE x \in I : TRUE
         IN  Compound(tweetFile.rows[i].text) + ScoreSum(I \ {i})

\* v is the arithmetic mean of the scores of the posts of t on day d
IsMeanOn(v, t, d) ==
    /\ PostsOn(t, d) # {}
    /\ v[2] > 0
    /\ v[1] * Cardinality(PostsOn(t, d)) = ScoreSum(PostsOn(t, d)) * v[2]

\* the record of ticker t as the store holds it
Rec(t) == store[t].rows

\* the rows of Rec(t) before row i whose date has a post of t
Signals(t, i) == {j \in 1..(i - 1) : Rec(t)[j].Date.iso \in PostDays(t)}

-----------------------------------------------------------------------------
(* C1 *)

\* C1: in every record a run has persisted, a row whose date has no post
\* of the ticker carries the daily mean of the nearest earlier row that has
\* one when that row is at most 7 rows back, and 0.0 when it is 8 or more
\* rows back or there is none; a ticker without posts has 0.0 on every row.
Thm_C1_ForwardFill ==
    \A t \in wrote :
        /\ \A i \in DOMAIN Rec(t) :
            Rec(t)[i].Date.iso \notin PostDays(t) =>
                IF Signals(t, i) # {} /\ i - Max(Signals(t, i)) <= 7
                THEN IsMeanOn(Rec(t)[i].daily_sentiment, t,
                              Rec(t)[Max(Signals(t, i))].Date.iso)
                ELSE Rec(t)[i].daily_sentiment = Zero
        /\ PostDays(t) = {} =>
            \A i \in DOMAIN Rec(t) : Rec(t)[i].daily_sentiment = Zero

\* a persisted record where a non-zero sentiment is carried to the row 7
\* rows after its post and the row 8 rows after it holds 0.0
Wit_C1_WindowEdge ==
    \E t \in wrote : \E i \in DOMAIN Rec(t) :
        /\ Signals(t, i) # {}
        /\ i - Max(Signals(t, i)) = 8
        /\ Rec(t)[i].Date.iso \notin PostDays(t)
        /\ Rec(t)[i].daily_sentiment = Zero
        /\ Rec(t)[i - 1].daily_sentiment # Zero
        /\ Rec(t)[i - 1].daily_sentiment = Rec(t)[i - 8].daily_sentiment

-----------------------------------------------------------------------------
(* C2 *)

\* C2: every row of every persisted record has a defined daily_sentiment.
Thm_C2_NoNullSentiment ==
    \A t \in Tickers : \A i \in DOMAIN Rec(t) :
        /\ Rec(t)[i].daily_sentiment # Null
        /\ Rec(t)[i].daily_sentiment[2] > 0

\* after two runs, a record with a row before the ticker's first post
\* (nothing to carry) and a later row a post's value is carried to
Wit_C2_RowsWithoutSignal ==
    /\ pc = "idle"
    /\ runsDone = 2
    /\ \E t \in wrote :
        /\ PostDays(t) \cap BarDays(t) # {}
        /\ \E i \in DOMAIN Rec(t) : Signals(t, i) = {}
                                    /\ Rec(t)[i].Date.iso \notin PostDays(t)
        /\ \E i \in DOMAIN Rec(t) : Signals(t, i) # {}
                                    /\ Rec(t)[i].Date.iso \notin PostDays(t)
                                    /\ Rec(t)[i].daily_sentiment # Zero

-----------------------------------------------------------------------------
(* C3 *)

\* C3: every persisted record has strictly increasing dates; a record a
\* run has written holds exactly one row per trading day of the ticker in
\* the price source (which holds one bar per ticker and trading day).
Thm_C3_OneRowPerTradingDay ==
    /\ \A t \in Tickers : \A i, j \in DOMAIN Rec(t) :
        i < j => Rec(t)[i].Date.iso < Rec(t)[j].Date.iso
    /\ \A t \in wrote :
        /\ {Rec(t)[i].Date.iso : i \in DOMAIN Rec(t)} = BarDays(t)
        /\ Len(Rec(t)) = Cardinality(BarsOf(t))

\* a record written from price rows that were not in date order, for a
\* ticker with two posts on one of its trading days
Wit_C3_UnsortedInputTwoPosts ==
    \E t \in wrote :
        /\ \E i, j \in BarsOf(t) :
            i < j /\ stockFile.rows[i].date.day > stockFile.rows[j].date.day
        /\ \E d \in BarDays(t) : Cardinality(PostsOn(t, d)) >= 2
        /\ Len(Rec(t)) > 2

-----------------------------------------------------------------------------
(* C4 *)

\* a ticker of the price file with nothing wrong of its own: every Date
\* cell of its price rows and posts parses and its name is a file name
Sound(t) ==
    /\ Writable(t)
    /\ \A i \in BarsOf(t) : Parseable(stockFile.rows[i].date)
    /\ \A i \in DOMAIN tweetFile.rows :
        tweetFile.rows[i].ticker = t => Parseable(tweetFile.rows[i].date)

\* C4: in a run over both raw sources, a processing error or malformed raw
\* row of one ticker never aborts the run: every other ticker of the price
\* rows is still processed and persisted.
Cex_C4_OtherTickersPersisted ==
    (pc = "idle" /\ lastRun \in {"aborted", "completed"}
     /\ \A i \in DOMAIN stockFile.rows : stockFile.rows[i].ticker # NaN) =>
        \A t \in PriceTickers :
            Sound(t) => t \in wrote /\ store[t] = FullFile(MergedDf(t))

-----------------------------------------------------------------------------
(* C5 *)

\* C5: a run with a raw source missing changes no record and is surfaced
\* to its caller as a failure, unlike a run that succeeded.
Cex_C5_MissingSourceIsFailure ==
    lastRun = "missing" => store = startStore /\ uiStatus = "error"

-----------------------------------------------------------------------------
(* C6 *)

\* C6: the result of a finished run lists exactly the tickers the run
\* skipped or failed on, each with its reason.
Cex_C6_ResultListsSkipped ==
    (pc = "idle" /\ lastRun = "completed" /\ logged # {}) =>
        ~result.isNone /\ result.skipped = logged

-----------------------------------------------------------------------------
(* C7 *)

\* C7: once a run has finished, further runs on the same raw inputs leave
\* the store as the first run left it, whatever the store held before.
Thm_C7_Idempotent ==
    (pc = "idle" /\ runsDone = 2) => firstEnd.valid /\ store = firstEnd.store

\* a second run has rewritten a record that replaced an older one
Wit_C7_SecondRunRewrote ==
    /\ pc = "idle"
    /\ runsDone = 2
    /\ \E t \in wrote : store0[t].exists /\ store[t] # store0[t]
    /\ \E t \in wrote : PostDays(t) \cap BarDays(t) # {}

-----------------------------------------------------------------------------
(* C8 *)

\* the record of ticker t holds the price bars of t in the price file, in
\* date order, and nothing else
HoldsBarsOf(t) ==
    LET ds == SortedSeq(BarDays(t))
    IN  /\ store[t].exists /\ store[t].header
        /\ Len(Rec(t)) = Len(ds)
        /\ \A i \in DOMAIN ds :
            /\ Rec(t)[i].Date.iso = ds[i]
            /\ Rec(t)[i].StockName = t
            /\ \E k \in BarsOf(t) :
                /\ stockFile.rows[k].date.day = ds[i]
                /\ stockFile.rows[k].close = Rec(t)[i].Close

-----------------------------------------------------------------------------
(* C9 *)

\* C9: between runs, get_available_tickers is exactly the set of tickers
\* some run has persisted, and load_stock_data succeeds for these and
\* raises FileNotFoundError for every other ticker.
Thm_C9_ListAndLoad ==
    pc = "idle" =>
        /\ GetAvailableTickers = persisted
        /\ \A t \in Tickers :
            LoadStockData(t).status =
                IF t \in persisted THEN "ok" ELSE "FileNotFoundError"

\* after a run some tickers are persisted, and one ticker of the price
\* rows is not
Wit_C9_SomePersistedSomeNot ==
    /\ pc = "idle"
    /\ lastRun = "completed"
    /\ wrote # {}
    /\ PriceTickers \ persisted # {}
    /\ \E t \in persisted : Len(LoadStockData(t).rows) > 0

-----------------------------------------------------------------------------
(* C10 *)

\* the records of ticker t that some run wrote in full, as load_stock_data
\* parses them
FullVersions(t) ==
    {[i \in DOMAIN f.rows |-> [f.rows[i] EXCEPT !.Date = ParseDate(@)]] :
        f \in {g \in {store0[t], FullFile(MergedDf(t))} : g.exists}}

\* C10: a load that returns a record returns one that a run wrote in full
\* for that ticker, also when the load interleaves with a run; a session's
\* own changes to an earlier copy never show in a fresh load.
Cex_C10_LoadIsFullRecord ==
    (df.status = "ok" /\ ~df.shocked) => df.rows \in FullVersions(df.ticker)

-----------------------------------------------------------------------------
(* C11 *)

\* C11: in every record a run has persisted, a row whose date has at least
\* one post of the ticker carries the arithmetic mean of the scores of
\* exactly the posts of that ticker on that calendar day.
Thm_C11_DailyMean ==
    \A t \in wrote : \A i \in DOMAIN Rec(t) :
        Rec(t)[i].Date.iso \in PostDays(t) =>
            IsMeanOn(Rec(t)[i].daily_sentiment, t, Rec(t)[i].Date.iso)

\* a persisted row whose day has several posts of the ticker and whose
\* value is the score of none of them, while another ticker posted that
\* day and the ticker posted on another day
Wit_C11_SeveralPostsOneDay ==
    \E t \in wrote : \E i \in DOMAIN Rec(t) :
        LET d == Rec(t)[i].Date.iso
            v == Rec(t)[i].daily_sentiment
        IN  /\ Cardinality(PostsOn(t, d)) >= 2
            /\ v # Zero
            /\ \A k \in PostsOn(t, d) :
                   v # Rat(Compound(tweetFile.rows[k].text), 1)
            /\ \E u \in Tickers \ {t} : PostsOn(u, d) # {}
            /\ PostDays(t) \ {d} # {}
            /\ IsMeanOn(v, t, d)

-----------------------------------------------------------------------------
(* What the risk claims speak of *)

\* calculate_risk_metrics has returned to the Risk page
Computed == risk.stage \in {"computed", "simulated"}

\* the closes of the record as it was loaded
LoadedCloses == Column(risk.loaded, "Close")

-----------------------------------------------------------------------------
(* C12 *)

\* C12: on a record of 0 rows or 1 row calculate_risk_metrics returns
\* var_95 = 0, volatility = 0 and sharpe = 0.
Thm_C12_ShortRecordZero ==
    (Computed /\ Len(LoadedCloses) < 2) => risk.risk_data = ZeroMetrics

\* the call has returned zeros on a record of one row, whose only return
\* is the NaN of pct_change, under a non-zero risk-free rate
Wit_C12_OneRowRecord ==
    /\ Computed
    /\ Len(LoadedCloses) = 1
    /\ risk.df.rows[1].Returns = Null
    /\ risk.risk_free_rate # 0
    /\ risk.risk_data = ZeroMetrics

-----------------------------------------------------------------------------
(* C13 *)

\* C13: on a record of at least 2 rows whose closes are all equal,
\* calculate_risk_metrics returns var_95 = 0, volatility = 0 and
\* sharpe = 0, whatever the risk-free rate.
Cex_C13_ConstantPriceZero ==
    (/\ Computed
     /\ Len(LoadedCloses) >= 2
     /\ \A i, j \in DOMAIN LoadedCloses : LoadedCloses[i] = LoadedCloses[j])
        => risk.risk_data = ZeroMetrics

-----------------------------------------------------------------------------
(* What the scan claims speak of, read off the store directly *)

\* find_market_opportunities has returned
Scanned == scan.pc = "done"

\* the tickers of the returned entries
ResultTickers == {scan.result[i].Ticker : i \in DOMAIN scan.result}

\* the rows of the record of t that fall in the target month
TargetRows(t) ==
    {i \in DOMAIN Rec(t) : MonthName(ParseDate(Rec(t)[i].Date)) = scan.month}

RECURSIVE SentimentSum(_, _)
SentimentSum(t, I) ==
    IF I = {} THEN Zero
    ELSE LET i == CHOOSE x \in I : TRUE
         IN  RAdd(Rec(t)[i].daily_sentiment, SentimentSum(t, I \ {i}))

\* the mean sentiment of the target-month rows of t is at least / at most
\* bound (in hundredths)
AvgSentimentAtLeast(t, bound) ==
    FGeq(SentimentSum(t, TargetRows(t)),
         <<bound * Cardinality(TargetRows(t)), 1>>)

AvgSentimentAtMost(t, bound) ==
    FLeq(SentimentSum(t, TargetRows(t)),
         <<bound * Cardinality(TargetRows(t)), 1>>)

\* the target-month rows of t whose close is above the close of the row
\* before
WinningRows(t) ==
    {i \in TargetRows(t) : i > 1 /\ Rec(t)[i].Close > Rec(t)[i - 1].Close}

-----------------------------------------------------------------------------
(* C14 *)

-----------------------------------------------------------------------------
(* C15 *)

\* the persisted tickers the match logic accepts for the target month
MatchingTickers ==
    {t \in GetAvailableTickers :
        /\ TargetRows(t) # {}
        /\ \/ /\ scan.min_sentiment >= 0
              /\ AvgSentimentAtLeast(t, scan.min_sentiment - 20)
           \/ /\ scan.min_sentiment < 0
              /\ AvgSentimentAtMost(t, scan.min_sentiment + 20)}

\* C15: the sequence a scan returns is ordered by avg_monthly_return
\* descending (every entry's return is >= that of the entry after it) and
\* holds every matching ticker exactly once; it is empty when nothing
\* matches or no record is persisted.
Cex_C15_DescendingByReturn ==
    Scanned =>
        /\ \A i \in 1..(Len(scan.result) - 1) :
              FGeq(scan.result[i].Avg_Monthly_Return,
                   scan.result[i + 1].Avg_Monthly_Return)
        /\ \A t \in MatchingTickers :
              Cardinality({i \in DOMAIN scan.result :
                              scan.result[i].Ticker = t}) = 1
        /\ Len(scan.result) = Cardinality(MatchingTickers)
        /\ (MatchingTickers = {} \/ GetAvailableTickers = {})
              => scan.result = <<>>

-----------------------------------------------------------------------------
(* C16 *)

\* C16: a persisted ticker without a row in the target month is in no
\* entry of the sequence a scan returns, whatever the preference.
Thm_C16_NoRowsNoEntry ==
    Scanned =>
        \A t \in GetAvailableTickers :
            TargetRows(t) = {} => t \notin ResultTickers

\* a scan has returned another ticker and not a ticker whose record has
\* rows, none of them in the target month, though the mean sentiment of
\* its rows is within the tolerance of the preference
Wit_C16_RowsInOtherMonthOnly ==
    /\ Scanned
    /\ ResultTickers # {}
    /\ \E t \in GetAvailableTickers \ ResultTickers :
          /\ Rec(t) # <<>>
          /\ TargetRows(t) = {}
          /\ scan.min_sentiment >= 0
          /\ FGeq(SentimentSum(t, DOMAIN Rec(t)),
                  <<(scan.min_sentiment - 20) * Len(Rec(t)), 1>>)

-----------------------------------------------------------------------------
(* C17 *)

\* the target-month rows of t but for the first row of its record
TargetRowsWithReturn(t) == TargetRows(t) \ {1}

\* C17: in every entry a scan returns, win_rate is the number of the
\* ticker's target-month rows with a positive daily return divided by the
\* number of its target-month rows, the first row of the record (whose
\* return is undefined) being counted in neither; win_rate is in [0, 1].
Cex_C17_WinRateDropsFirstRow ==
    Scanned =>
        \A i \in DOMAIN scan.result :
            LET t == scan.result[i].Ticker
                w == scan.result[i].Win_Rate
            IN  /\ w[2] > 0
                /\ 0 <= w[1]
                /\ w[1] <= w[2]
                /\ TargetRowsWithReturn(t) # {} =>
                      w[1] * Cardinality(TargetRowsWithReturn(t))
                          = Cardinality(WinningRows(t)) * w[2]

-----------------------------------------------------------------------------
(* C18 *)

\* C18: whatever the order in which a run iterates the tickers, when it
\* has finished the store is the one the loop leaves when it takes the
\* tickers in the order of the price file.
Thm_C18_OrderIndependent ==
    (pc = "idle" /\ lastRun = "completed")
        => store = LoopOver(UniqueTickers, startStore)

\* a run that iterated the tickers in another order than the price file
\* gives has finished; it wrote two records with different sentiments, one
\* of them not the last record it wrote, skipped a ticker and failed on one
Wit_C18_OtherOrderFinished ==
    /\ pc = "idle"
    /\ lastRun = "completed"
    /\ order # UniqueTickers
    /\ order[Len(order)] # UniqueTickers[Len(UniqueTickers)]
    /\ Cardinality(wrote) = 2
    /\ Cardinality(logged) = 2
    /\ store # startStore
    /\ \E t, u \in wrote :
          \E i \in DOMAIN Rec(t) :
              /\ i \in DOMAIN Rec(u)
              /\ Rec(t)[i].daily_sentiment # Rec(u)[i].daily_sentiment

-----------------------------------------------------------------------------
(* C19 *)

\* C19: on every record of at least 2 rows with positive closes, a record
\* of exactly 2 rows included, calculate_risk_metrics returns three
\* defined numbers: none of var_95, volatility and sharpe is NaN.
Cex_C19_DefinedFromTwoRows ==
    (/\ Computed
     /\ Len(LoadedCloses) >= 2
     /\ \A i \in DOMAIN LoadedCloses : LoadedCloses[i] > 0)
        => /\ ~IsNaN(risk.risk_data.var_95)
           /\ ~IsNaN(risk.risk_data.volatility)
           /\ ~IsNaN(risk.risk_data.sharpe)

-----------------------------------------------------------------------------
(* C20 *)

\* C20: after calculate_risk_metrics has returned, the frame the caller
\* passed has the columns and the values it had when it was loaded.
Cex_C20_RecordUnchanged ==
    Computed =>
        /\ risk.df.cols = risk.loaded.cols
        /\ risk.df.rows = risk.loaded.rows

-----------------------------------------------------------------------------
(* C21 *)

\* C21: every entry a scan returns has a defined avg_monthly_return,
\* avg_sentiment and win_rate, also the entry of a ticker whose only row in
\* the target month is the first row of its record.
Cex_C21_DefinedReturn ==
    Scanned =>
        \A i \in DOMAIN scan.result :
            /\ scan.result[i].Avg_Monthly_Return # Null
            /\ scan.result[i].Avg_Sentiment # Null
            /\ scan.result[i].Win_Rate # Null

====
